---------------------------- MODULE Spec2Model ----------------------------
(***************************************************************************)
(* A model of src/project-sum.py, the "project summarizer":                *)
(*   read_text_robust            bytes -> (text, encoding label)           *)
(*   normalize_text_basic/_ascii_punct, apply_normalization                *)
(*   clean_code                  read + normalize + per-kind cleaning      *)
(*   summarize_project_code      os.walk, exclusion, extension matching    *)
(*   main                        root validation, stdout, clipboard        *)
(*                                                                         *)
(* Text is a sequence of Unicode code points, file content a sequence of   *)
(* bytes (0..255); string constants of the source are written out as the   *)
(* code points of their characters.                                        *)
(*                                                                         *)
(* Specifications:                                                         *)
(*   Spec        one run of main() over a small directory tree             *)
(*   SpecDecode  read_text_robust applied to bounded byte sequences        *)
(*   SpecNorm    apply_normalization applied once and twice                *)
(*   SpecClean   clean_code applied to bounded files                       *)
(***************************************************************************)
EXTENDS Integers, Sequences, FiniteSets, TLC

VARIABLES
    pc,              \* position of the program / of the harness
    \* ---- main(): command line and environment
    base_path,       \* what args.path names: its kind and the names below it
    extensions,      \* args.extensions, in the caller's order
    normalize_mode,  \* args.normalize
    exclude,         \* args.exclude
    \* ---- summarize_project_code(): locals
    output_parts,    \* list of fragments appended so far
    walk,            \* os.walk: directories still to be yielded, in order
    files,           \* `for file in files`: files of the current directory left
    ext_idx,         \* `for ext in extensions`: index of the next extension
    \* ---- environment and observations
    listing,         \* per directory: the order scandir listed its entries in
    failed,          \* the clean_code calls (positions in calls) whose open() raised
    calls,           \* every clean_code(full_path, ext, ...) call, in order
    visited,         \* directories os.walk has yielded
    stdout,          \* what print() wrote
    clipboard,       \* what pyperclip.copy() received
    exit_status,     \* process exit status (-1 while running)
    \* ---- arguments and results of the functions exercised on their own
    data,            \* bytes of the file read
    extension,       \* the `extension` argument of clean_code
    text,            \* the text handed to the normalizer
    result           \* what the function(s) returned

vars == <<pc, base_path, extensions, normalize_mode, exclude, output_parts,
          walk, files, ext_idx, listing, failed, calls, visited, stdout,
          clipboard, exit_status, data, extension, text, result>>

-----------------------------------------------------------------------------
(* Bounds of the model *)

\* longest byte sequence handed to read_text_robust in SpecDecode
MaxBytes == 4
\* longest text handed to the normalizer in SpecNorm
MaxNormLen == 3
\* most pieces a file of SpecClean is put together from
MaxPieces == 4
\* most open() calls that fail in one run of Spec
MaxUnreadable == 2

-----------------------------------------------------------------------------
(* Sequences and Python's str/bytes methods *)

BoundedSeq(S, n) == UNION {[1..k -> S] : k \in 0..n}

\* s.startswith(p)
StartsWith(s, p) == Len(p) <= Len(s) /\ SubSeq(s, 1, Len(p)) = p

\* s.endswith(p)
EndsWith(s, p) ==
    Len(p) <= Len(s) /\ SubSeq(s, Len(s) - Len(p) + 1, Len(s)) = p

RECURSIVE Concat(_)
\* "".join(parts)
Concat(parts) ==
    IF parts = <<>> THEN <<>>
    ELSE IF Len(parts) = 1 THEN parts[1]
    ELSE LET half == Len(parts) \div 2 IN
         Concat(SubSeq(parts, 1, half))
             \o Concat(SubSeq(parts, half + 1, Len(parts)))

\* sep.join(parts)
Join(sep, parts) ==
    Concat([i \in 1..(2 * Len(parts) - 1) |->
               IF i % 2 = 1 THEN parts[(i + 1) \div 2] ELSE sep])

\* the least member of a non-empty set of numbers
Min(S) == CHOOSE i \in S : \A j \in S : i <= j

\* str.isspace() of one character (the characters str.strip() removes)
IsSpace(c) ==
    \/ c \in 9..13 \/ c \in 28..32
    \/ c \in {\h85, \hA0, \h1680, \h2028, \h2029, \h202F, \h205F, \h3000}
    \/ c \in \h2000..\h200A

\* s.lstrip(chars): drop leading characters while they belong to chars
LStripSet(s, chars) ==
    LET Stay == {i \in 1..Len(s) : s[i] \notin chars}
    IN IF Stay = {} THEN <<>> ELSE SubSeq(s, Min(Stay), Len(s))

\* s.lstrip()
LStrip(s) ==
    LET Stay == {i \in 1..Len(s) : ~IsSpace(s[i])}
    IN IF Stay = {} THEN <<>> ELSE SubSeq(s, Min(Stay), Len(s))

\* s.strip()
Strip(s) ==
    LET Stay == {i \in 1..Len(s) : ~IsSpace(s[i])}
    IN IF Stay = {} THEN <<>>
       ELSE SubSeq(s, Min(Stay), CHOOSE i \in Stay : \A j \in Stay : j <= i)

\* c.lower() of one character: the ASCII letters (the names of the model are ASCII)
LowerChar(c) == IF c \in 65..90 THEN c + 32 ELSE c

\* s.lower()
Lower(s) == [i \in 1..Len(s) |-> LowerChar(s[i])]

\* s.split(sep) for a one-character separator: the pieces between the
\* occurrences of sep, the start and the end
Split(s, sep) ==
    LET Cuts == {i \in 1..Len(s) : s[i] = sep} \cup {0, Len(s) + 1}
    IN [k \in 1..(Cardinality(Cuts) - 1) |->
           LET from == CHOOSE i \in Cuts : Cardinality({j \in Cuts : j < i}) = k - 1
               to == Min({j \in Cuts : j > from})
           IN SubSeq(s, from + 1, to - 1)]

-----------------------------------------------------------------------------
(* read_text_robust: the codecs *)

\* a decode that raised UnicodeDecodeError / one that returned t
DecodeError == [ok |-> FALSE, text |-> <<>>]
Decoded(t) == [ok |-> TRUE, text |-> t]

\* the continuation byte b[i] exists
Utf8Cont(b, i) == i <= Len(b) /\ b[i] \in \h80..\hBF

\* the UTF-8 sequence starting at b[i]: its length (0: invalid) and code point
Utf8Unit(b, i) ==
    LET b0 == b[i] IN
    IF b0 < \h80 THEN [len |-> 1, cp |-> b0]
    ELSE IF b0 \in \hC2..\hDF /\ Utf8Cont(b, i + 1)
    THEN [len |-> 2, cp |-> (b0 - \hC0) * 64 + (b[i + 1] - \h80)]
    ELSE IF /\ b0 \in \hE0..\hEF /\ Utf8Cont(b, i + 1) /\ Utf8Cont(b, i + 2)
            /\ (b0 = \hE0 => b[i + 1] >= \hA0)
            /\ (b0 = \hED => b[i + 1] <= \h9F)
    THEN [len |-> 3, cp |-> (b0 - \hE0) * 4096 + (b[i + 1] - \h80) * 64
                             + (b[i + 2] - \h80)]
    ELSE IF /\ b0 \in \hF0..\hF4
            /\ Utf8Cont(b, i + 1) /\ Utf8Cont(b, i + 2) /\ Utf8Cont(b, i + 3)
            /\ (b0 = \hF0 => b[i + 1] >= \h90)
            /\ (b0 = \hF4 => b[i + 1] <= \h8F)
    THEN [len |-> 4, cp |-> (b0 - \hF0) * 262144 + (b[i + 1] - \h80) * 4096
                             + (b[i + 2] - \h80) * 64 + (b[i + 3] - \h80)]
    ELSE [len |-> 0, cp |-> 0]

RECURSIVE Utf8From(_, _, _)
\* b[i..].decode("utf-8", errors): the run of ASCII bytes up to the next
\* byte >= 0x80 decodes to itself; the sequence starting there is decoded, or
\* is an error: UnicodeDecodeError when strict, and with surrogateescape the
\* byte becomes U+DC00 + byte and decoding goes on behind it
Utf8From(b, i, errors) ==
    LET High == {k \in i..Len(b) : b[k] >= \h80} IN
    IF High = {} THEN Decoded(SubSeq(b, i, Len(b)))
    ELSE LET k == Min(High)
             u == Utf8Unit(b, k)
         IN IF u.len = 0
            THEN IF errors = "surrogateescape"
                 THEN Decoded(SubSeq(b, i, k - 1) \o <<\hDC00 + b[k]>>
                                  \o Utf8From(b, k + 1, errors).text)
                 ELSE DecodeError
            ELSE LET rest == Utf8From(b, k + u.len, errors) IN
                 IF rest.ok
                 THEN Decoded(SubSeq(b, i, k - 1) \o <<u.cp>> \o rest.text)
                 ELSE DecodeError

\* data.decode("utf-8")
Utf8Decode(b) == Utf8From(b, 1, "strict")

\* data.decode("utf-8-sig"): a leading EF BB BF is dropped
Utf8SigDecode(b) ==
    IF StartsWith(b, <<\hEF, \hBB, \hBF>>) THEN Utf8From(b, 4, "strict")
    ELSE Utf8From(b, 1, "strict")

RECURSIVE Utf16Units(_, _, _)
\* the 16-bit code units of b[i..]; <<-1>> marks a truncated last unit
Utf16Units(b, i, little) ==
    IF i > Len(b) THEN <<>>
    ELSE IF i = Len(b) THEN <<-1>>
    ELSE <<IF little THEN b[i] + 256 * b[i + 1] ELSE 256 * b[i] + b[i + 1]>>
         \o Utf16Units(b, i + 2, little)

RECURSIVE Utf16From(_, _)
\* the code points of the code units u[i..]
Utf16From(u, i) ==
    IF i > Len(u) THEN Decoded(<<>>)
    ELSE IF u[i] = -1 THEN DecodeError                      \* truncated data
    ELSE IF u[i] \in \hDC00..\hDFFF THEN DecodeError        \* illegal encoding
    ELSE IF u[i] \in \hD800..\hDBFF
    THEN IF i < Len(u) /\ u[i + 1] \in \hDC00..\hDFFF
         THEN LET rest == Utf16From(u, i + 2) IN
              IF rest.ok
              THEN Decoded(<<\h10000 + (u[i] - \hD800) * 1024
                              + (u[i + 1] - \hDC00)>> \o rest.text)
              ELSE DecodeError
         ELSE DecodeError            \* unexpected end / illegal surrogate
    ELSE LET rest == Utf16From(u, i + 1) IN
         IF rest.ok THEN Decoded(<<u[i]>> \o rest.text) ELSE DecodeError

\* data.decode("utf-16"): the byte-order-mark selects the endianness and is
\* consumed; without one the codec reads little-endian
Utf16Decode(b) ==
    IF StartsWith(b, <<\hFF, \hFE>>) THEN Utf16From(Utf16Units(b, 3, TRUE), 1)
    ELSE IF StartsWith(b, <<\hFE, \hFF>>)
    THEN Utf16From(Utf16Units(b, 3, FALSE), 1)
    ELSE Utf16From(Utf16Units(b, 1, TRUE), 1)

RECURSIVE Utf32From(_, _, _)
\* the code points of b[i..], four bytes each
Utf32From(b, i, little) ==
    IF i > Len(b) THEN Decoded(<<>>)
    ELSE IF i + 3 > Len(b) THEN DecodeError                 \* truncated data
    ELSE LET hi  == IF little THEN b[i + 3] ELSE b[i]
             mh  == IF little THEN b[i + 2] ELSE b[i + 1]
             ml  == IF little THEN b[i + 1] ELSE b[i + 2]
             lo  == IF little THEN b[i] ELSE b[i + 3]
             cp  == mh * 65536 + ml * 256 + lo
         IN IF hi # 0 \/ mh > \h10 \/ cp \in \hD800..\hDFFF
            THEN DecodeError         \* not in range(0x110000), or a surrogate
            ELSE LET rest == Utf32From(b, i + 4, little) IN
                 IF rest.ok THEN Decoded(<<cp>> \o rest.text) ELSE DecodeError

\* data.decode("utf-32")
Utf32Decode(b) ==
    IF StartsWith(b, <<\hFF, \hFE, 0, 0>>) THEN Utf32From(b, 5, TRUE)
    ELSE IF StartsWith(b, <<0, 0, \hFE, \hFF>>) THEN Utf32From(b, 5, FALSE)
    ELSE Utf32From(b, 1, TRUE)

\* the code points Windows-1252 gives the bytes 0x80..0x9F; 0 where the code
\* page leaves the byte undefined (0x81, 0x8D, 0x8F, 0x90, 0x9D)
Cp1252High ==
    <<\h20AC, 0,      \h201A, \h0192, \h201E, \h2026, \h2020, \h2021,
      \h02C6, \h2030, \h0160, \h2039, \h0152, 0,      \h017D, 0,
      0,      \h2018, \h2019, \h201C, \h201D, \h2022, \h2013, \h2014,
      \h02DC, \h2122, \h0161, \h203A, \h0153, 0,      \h017E, \h0178>>

\* the code point of one byte in Windows-1252; 0 for an undefined byte
\* (byte 0 itself decodes to U+0000 and is handled by the caller)
Cp1252Char(c) == IF c \in \h80..\h9F THEN Cp1252High[c - \h80 + 1] ELSE c

\* data.decode("cp1252")
Cp1252Decode(b) ==
    IF \E i \in 1..Len(b) : b[i] # 0 /\ Cp1252Char(b[i]) = 0 THEN DecodeError
    ELSE Decoded([i \in 1..Len(b) |-> Cp1252Char(b[i])])

\* data.decode("latin-1"): every byte is its own code point
Latin1Decode(b) == Decoded(b)

-----------------------------------------------------------------------------
(* read_text_robust *)

\* `raise RuntimeError(...)` / `return text, enc`
Raised == [raised |-> TRUE, text |-> <<>>, enc |-> "RuntimeError"]
Returned(t, enc) == [raised |-> FALSE, text |-> t, enc |-> enc]

\* the two encodings tried in the other order, ("latin-1", "cp1252")
Latin1First(b) ==
    IF Latin1Decode(b).ok THEN Returned(Latin1Decode(b).text, "latin-1")
    ELSE Returned(Cp1252Decode(b).text, "cp1252")

\* `for enc in ("cp1252", "latin-1")`: the first of the two that decodes;
\* when neither does, the last resort utf-8 with surrogateescape
CommonWindowsEncodings(b) ==
    IF Cp1252Decode(b).ok THEN Returned(Cp1252Decode(b).text, "cp1252")
    ELSE IF Latin1Decode(b).ok THEN Returned(Latin1Decode(b).text, "latin-1")
    ELSE Returned(Utf8From(b, 1, "surrogateescape").text,
                  "utf-8-surrogateescape")

\* read_text_robust(file_path), for a file holding the bytes b whose open()
\* succeeds (openable) or raises
read_text_robust(b, openable) ==
    IF ~openable THEN Raised
    ELSE IF Utf8Decode(b).ok THEN Returned(Utf8Decode(b).text, "utf-8")
    ELSE IF Utf8SigDecode(b).ok
    THEN Returned(Utf8SigDecode(b).text, "utf-8-sig")
    ELSE IF /\ (StartsWith(b, <<\hFF, \hFE>>) \/ StartsWith(b, <<\hFE, \hFF>>))
            /\ Utf16Decode(b).ok
    THEN Returned(Utf16Decode(b).text, "utf-16")
    ELSE IF /\ (\/ StartsWith(b, <<\hFF, \hFE, 0, 0>>)
                \/ StartsWith(b, <<0, 0, \hFE, \hFF>>))
            /\ Utf32Decode(b).ok
    THEN Returned(Utf32Decode(b).text, "utf-32")
    ELSE CommonWindowsEncodings(b)

-----------------------------------------------------------------------------
(* unicodedata.normalize("NFC", text), for the characters of the model:     *)
(* e, U+0301 COMBINING ACUTE ACCENT, U+0323 COMBINING DOT BELOW and their   *)
(* composites U+00E9 and U+1EB9; every other character of the model is a    *)
(* starter with no decomposition and no composition.                        *)

\* unicodedata.combining(c)
CombiningClass(c) == IF c = \h0301 THEN 230 ELSE IF c = \h0323 THEN 220 ELSE 0

\* the canonical decomposition of c
Decomposition(c) ==
    IF c = \h00E9 THEN <<\h65, \h0301>>
    ELSE IF c = \h1EB9 THEN <<\h65, \h0323>>
    ELSE <<c>>

\* the primary composite of a starter and a following character; 0 when none
Composite(a, b) ==
    IF a = \h65 /\ b = \h0301 THEN \h00E9
    ELSE IF a = \h65 /\ b = \h0323 THEN \h1EB9
    ELSE 0

RECURSIVE CanonicalOrder(_)
\* canonical ordering: neighbouring non-starters sorted by combining class
CanonicalOrder(s) ==
    LET Bad == {i \in 1..(Len(s) - 1) :
                   /\ CombiningClass(s[i + 1]) > 0
                   /\ CombiningClass(s[i]) > CombiningClass(s[i + 1])}
    IN IF Bad = {} THEN s
       ELSE LET i == CHOOSE k \in Bad : \A j \in Bad : k <= j IN
            CanonicalOrder([s EXCEPT ![i] = s[i + 1], ![i + 1] = s[i]])

RECURSIVE ComposeFrom(_, _, _, _)
\* canonical composition of s[i..] onto out, whose last starter is out[starter]
ComposeFrom(s, i, out, starter) ==
    IF i > Len(s) THEN out
    ELSE LET c == s[i]
             blocked == /\ Len(out) > starter
                        /\ CombiningClass(out[Len(out)]) >= CombiningClass(c)
         IN IF starter > 0 /\ ~blocked /\ Composite(out[starter], c) # 0
            THEN ComposeFrom(s, i + 1,
                             [out EXCEPT ![starter] = Composite(out[starter], c)],
                             starter)
            ELSE ComposeFrom(s, i + 1, Append(out, c),
                             IF CombiningClass(c) = 0 THEN Len(out) + 1
                             ELSE starter)

\* a character that never changes under NFC and never combines with the
\* character before it (the quick check of the normalizer answers "yes")
NfcQuickCheck(c) == CombiningClass(c) = 0 /\ Decomposition(c) = <<c>>

\* unicodedata.normalize("NFC", t): a text that passes the quick check is
\* returned as it is; any other is decomposed, ordered and composed
NFC(t) ==
    IF \A i \in 1..Len(t) : NfcQuickCheck(t[i]) THEN t
    ELSE ComposeFrom(
             CanonicalOrder(Concat([i \in 1..Len(t) |-> Decomposition(t[i])])),
             1, <<>>, 0)

-----------------------------------------------------------------------------
(* normalize_text_basic, normalize_text_ascii_punct, apply_normalization *)

\* the translation table `tr` of normalize_text_basic, as str.translate reads
\* it: the replacement of one character
BasicTr(c) ==
    IF c \in {\h00A0, \h202F} THEN <<\h20>>
    ELSE IF c \in {\hFEFF, \h200B, \h200C, \h200D, \h2060, \h00AD} THEN <<>>
    ELSE IF c = \h2011 THEN <<\h2D>>
    ELSE <<c>>

\* the translation table `tr` of normalize_text_ascii_punct
AsciiTr(c) ==
    IF c \in {\h2018, \h2019} THEN <<\h27>>
    ELSE IF c \in {\h201C, \h201D} THEN <<\h22>>
    ELSE IF c \in {\h2013, \h2014} THEN <<\h2D>>
    ELSE IF c = \h2026 THEN <<\h2E, \h2E, \h2E>>
    ELSE <<c>>

normalize_text_basic(t) ==
    LET composed == NFC(t) IN
    Concat([i \in 1..Len(composed) |-> BasicTr(composed[i])])

normalize_text_ascii_punct(t) ==
    LET basic == normalize_text_basic(t) IN
    Concat([i \in 1..Len(basic) |-> AsciiTr(basic[i])])

apply_normalization(t, mode) ==
    IF mode = "none" THEN t
    ELSE IF mode = "ascii" THEN normalize_text_ascii_punct(t)
    ELSE normalize_text_basic(t)

-----------------------------------------------------------------------------
(* clean_code *)

\* "\n", "\r", "using ", "namespace", ".cs", "\ufeff"
LF == <<\h0A>>
CR == <<\h0D>>
UsingPrefix == <<117, 115, 105, 110, 103, 32>>
NamespacePrefix == <<110, 97, 109, 101, 115, 112, 97, 99, 101>>
DotCs == <<46, 99, 115>>
BomChars == {\hFEFF}

\* text.replace("\r\n", "\n"): every "\r" that a "\n" follows is dropped
ReplaceCRLF(t) ==
    Concat([i \in 1..Len(t) |->
               IF <<t[i]>> = CR /\ i < Len(t) /\ <<t[i + 1]>> = LF
               THEN <<>> ELSE <<t[i]>>])

\* text.replace("\r", "\n")
ReplaceCR(t) == [i \in 1..Len(t) |-> IF <<t[i]>> = CR THEN LF[1] ELSE t[i]]

\* the test without lstrip("\ufeff"): ln.lstrip().startswith("using ")
IsUsingLineNoBom(ln) == StartsWith(LStrip(ln), UsingPrefix)

\* ln.lstrip("\ufeff").lstrip().startswith("using ")
IsUsingLine(ln) == StartsWith(LStrip(LStripSet(ln, BomChars)), UsingPrefix)

\* not a "using" line: the test of the list comprehension
KeepLine(ln) == ~IsUsingLine(ln)

\* l.lstrip().startswith("namespace")
IsNamespaceLine(l) == StartsWith(LStrip(l), NamespacePrefix)

\* next((i for i, l in enumerate(filtered_lines) if ...), None) and the slice
\* filtered_lines[namespace_index:]; Python counts lines from 0, the model from 1
FromNamespace(filtered_lines) ==
    LET Hits == {i \in 1..Len(filtered_lines) :
                    IsNamespaceLine(filtered_lines[i])}
    IN IF Hits = {} THEN filtered_lines
       ELSE LET namespace_index == CHOOSE i \in Hits : \A j \in Hits : i <= j
            IN SubSeq(filtered_lines, namespace_index, Len(filtered_lines))

\* the newline appended without the endswith test: cleaned += "\n"
AlwaysAppendNewline(s) == s \o LF

\* if not cleaned.endswith("\n"): cleaned += "\n"
EnsureTrailingNewline(s) == IF EndsWith(s, LF) THEN s ELSE s \o LF

\* `return None` / `return cleaned`
None == [none |-> TRUE, text |-> <<>>]
Some(t) == [none |-> FALSE, text |-> t]

\* the text clean_code works on: decoded, normalized, line endings made LF
DecodedText(b, mode) ==
    ReplaceCR(ReplaceCRLF(apply_normalization(read_text_robust(b, TRUE).text,
                                              mode)))

\* clean_code(file_path, extension, normalize_mode) for a file holding the
\* bytes b whose open() succeeds (openable) or raises
clean_code(b, openable, ext, mode) ==
    IF read_text_robust(b, openable).raised THEN None
    ELSE IF Lower(ext) = DotCs
    THEN LET lines == Split(DecodedText(b, mode), LF[1])
             filtered_lines == FromNamespace(SelectSeq(lines, KeepLine))
         IN Some(EnsureTrailingNewline(Join(LF, filtered_lines)))
    ELSE Some(EnsureTrailingNewline(DecodedText(b, mode)))

-----------------------------------------------------------------------------
(* The functions exercised on their own: SpecDecode, SpecNorm, SpecClean *)

\* the variables of main() and summarize_project_code(), which these
\* specifications leave alone
NoRun ==
    /\ base_path = [kind |-> "none"]
    /\ extensions = <<>>
    /\ exclude = <<>>
    /\ output_parts = <<>>
    /\ walk = <<>>
    /\ files = <<>>
    /\ ext_idx = 1
    /\ listing = <<>>
    /\ failed = {}
    /\ calls = <<>>
    /\ visited = {}
    /\ stdout = <<>>
    /\ clipboard = <<>>
    /\ exit_status = -1

RunVars == <<base_path, extensions, exclude, output_parts, walk, files,
             ext_idx, listing, failed, calls, visited, stdout, clipboard,
             exit_status>>

\* ---- SpecDecode ----------------------------------------------------------

\* the bytes the files of SpecDecode are made of: ASCII, the UTF-8 encoding of
\* U+00E9 (C3 A9), a byte Windows-1252 leaves undefined (81), the bytes of the
\* byte-order-marks (FF FE, 00 00 FE FF, EF BB BF)
DecodeBytes == {\h41, \hC3, \hA9, \h81, \hFF, \hFE, \h00, \hEF, \hBB, \hBF}

InitDecode ==
    /\ NoRun
    /\ pc = "read"
    /\ data \in BoundedSeq(DecodeBytes, MaxBytes)
    /\ normalize_mode = "none"
    /\ extension = <<>>
    /\ text = <<>>
    /\ result = Returned(<<>>, "")

\* text, used_enc = read_text_robust(file_path)
ReadTextRobust ==
    /\ pc = "read"
    /\ \E openable \in BOOLEAN : result' = read_text_robust(data, openable)
    /\ pc' = "returned"
    /\ UNCHANGED <<RunVars, data, normalize_mode, extension, text>>

NextDecode == ReadTextRobust

SpecDecode == InitDecode /\ [][NextDecode]_vars

\* ---- SpecNorm ------------------------------------------------------------

\* the characters the texts of SpecNorm are made of: a base letter, two
\* combining marks of different classes, the two composites, a removed
\* character (U+200B), and characters the tables replace
NormChars ==
    {\h65, \h0301, \h0323, \h00E9, \h200B, \h00A0, \h2011, \h2019, \h2026}

InitNorm ==
    /\ NoRun
    /\ pc = "normalize"
    /\ text \in BoundedSeq(NormChars, MaxNormLen)
    /\ normalize_mode \in {"none", "basic", "ascii"}
    /\ data = <<>>
    /\ extension = <<>>
    /\ result = [once |-> <<>>, twice |-> <<>>]

\* text = apply_normalization(text, mode)
Normalize ==
    /\ pc = "normalize"
    /\ result' = [result EXCEPT !.once = apply_normalization(text, normalize_mode)]
    /\ pc' = "normalized"
    /\ UNCHANGED <<RunVars, data, normalize_mode, extension, text>>

\* the same call on the text the first call returned
NormalizeAgain ==
    /\ pc = "normalized"
    /\ result' = [result EXCEPT
                     !.twice = apply_normalization(result.once, normalize_mode)]
    /\ pc' = "renormalized"
    /\ UNCHANGED <<RunVars, data, normalize_mode, extension, text>>

NextNorm == Normalize \/ NormalizeAgain

SpecNorm == InitNorm /\ [][NextNorm]_vars

\* ---- SpecClean -----------------------------------------------------------

\* the pieces the files of SpecClean are put together from, as UTF-8 bytes:
\* "using ", "namespace", "\n", " ", U+FEFF, "x", "\r"
Pieces ==
    <<<<117, 115, 105, 110, 103, 32>>,
      <<110, 97, 109, 101, 115, 112, 97, 99, 101>>,
      <<10>>,
      <<32>>,
      <<239, 187, 191>>,
      <<120>>,
      <<13>>>>

\* the `extension` arguments tried: ".cs", ".CS", ".txt"
CleanExtensions == {<<46, 99, 115>>, <<46, 67, 83>>, <<46, 116, 120, 116>>}

InitClean ==
    /\ NoRun
    /\ pc = "clean"
    /\ \E ps \in BoundedSeq(1..Len(Pieces), MaxPieces) :
           data = Concat([i \in 1..Len(ps) |-> Pieces[ps[i]]])
    /\ extension \in CleanExtensions
    /\ normalize_mode \in {"none", "basic"}
    /\ text = <<>>
    /\ result = None

\* cleaned_code = clean_code(full_path, ext, normalize_mode)
CleanCode ==
    /\ pc = "clean"
    /\ \E openable \in BOOLEAN :
           result' = clean_code(data, openable, extension, normalize_mode)
    /\ pc' = "cleaned"
    /\ UNCHANGED <<RunVars, data, normalize_mode, extension, text>>

NextClean == CleanCode

SpecClean == InitClean /\ [][NextClean]_vars

-----------------------------------------------------------------------------
(* The directory tree main() is run on                                      *)
(*                                                                          *)
(*   <base>/a.cs                                                            *)
(*   <base>/b.txt                                                           *)
(*   <base>/<D1>/y.cs          D1 is named "src" or "Bin"                   *)
(*   <base>/<D1>/<D2>/x.cs     D2 is named "core", "obj" or "App.Tests"     *)
(*   <base>/lib/Z.TXT                                                       *)

Root == "."
DirNodes == {"D1", "D2", "D3"}
FileNodes == {"F1", "F2", "F3", "F4", "F5"}

\* the entries of a directory
Children(d) ==
    IF d = Root THEN {"F1", "F2", "D1", "D3"}
    ELSE IF d = "D1" THEN {"F3", "D2"}
    ELSE IF d = "D2" THEN {"F4"}
    ELSE IF d = "D3" THEN {"F5"}
    ELSE {}

\* the directory an entry is in
Parent(n) == CHOOSE d \in DirNodes \cup {Root} : n \in Children(d)

\* the name of an entry: "a.cs", "b.txt", "y.cs", "x.cs", "Z.TXT", "lib"
Name(n) ==
    IF n = "F1" THEN <<97, 46, 99, 115>>
    ELSE IF n = "F2" THEN <<98, 46, 116, 120, 116>>
    ELSE IF n = "F3" THEN <<121, 46, 99, 115>>
    ELSE IF n = "F4" THEN <<120, 46, 99, 115>>
    ELSE IF n = "F5" THEN <<90, 46, 84, 88, 84>>
    ELSE IF n = "D1" THEN base_path.d1
    ELSE IF n = "D2" THEN base_path.d2
    ELSE <<108, 105, 98>>

\* the bytes of a file:
\*   a.cs   "using X;\n\nusing Y;\nnamespace Foo {\n}\n"
\*   b.txt  "hello\n"
\*   y.cs   EF BB BF "using Z;\r\nclass C {}"
\*   x.cs   "// caf" E9 "\nnamespace N;\n\n"
\*   Z.TXT  "z" C2 A0 "\n"
Content(f) ==
    IF f = "F1" THEN <<117, 115, 105, 110, 103, 32, 88, 59, 10, 10, 117, 115, 105, 110, 103, 32, 89, 59, 10, 110, 97, 109, 101, 115, 112, 97, 99, 101, 32, 70, 111, 111, 32, 123, 10, 125, 10>>
    ELSE IF f = "F2" THEN <<104, 101, 108, 108, 111, 10>>
    ELSE IF f = "F3" THEN <<239, 187, 191, 117, 115, 105, 110, 103, 32, 90, 59, 13, 10, 99, 108, 97, 115, 115, 32, 67, 32, 123, 125>>
    ELSE IF f = "F4" THEN <<47, 47, 32, 99, 97, 102, 233, 10, 110, 97, 109, 101, 115, 112, 97, 99, 101, 32, 78, 59, 10, 10>>
    ELSE <<122, 194, 160, 10>>

\* the names D1 and D2 may have: "src", "Bin" / "core", "obj", "App.Tests"
D1Names == {<<115, 114, 99>>, <<66, 105, 110>>}
D2Names == {<<99, 111, 114, 101>>, <<111, 98, 106>>, <<65, 112, 112, 46, 84, 101, 115, 116, 115>>}

\* the extension lists tried: [".cs", ".txt"], ["s", ".cs"], [".CS", "cs", ".txt"]
ExtensionLists ==
    {<<<<46, 99, 115>>, <<46, 116, 120, 116>>>>,
     <<<<115>>, <<46, 99, 115>>>>,
     <<<<46, 67, 83>>, <<99, 115>>, <<46, 116, 120, 116>>>>}

\* the --exclude lists tried: none, [" Core ", " "]
ExcludeLists == {<<>>, <<<<32, 67, 111, 114, 101, 32>>, <<32>>>>}

RECURSIVE RelPath(_)
\* os.path.relpath(os.path.join(root, file), base_path).replace(os.sep, "/")
RelPath(n) ==
    IF Parent(n) = Root THEN Name(n)
    ELSE RelPath(Parent(n)) \o <<47>> \o Name(n)

\* the orders a directory's entries can be listed in
Listings(S) ==
    {p \in [1..Cardinality(S) -> S] :
        \A i, j \in 1..Cardinality(S) : p[i] = p[j] => i = j}

\* the (top, dirs, files) os.walk builds from a listing: the entries that are
\* directories and those that are not, each in listing order
WalkDirs(entries) == SelectSeq(entries, LAMBDA n : n \in DirNodes)
WalkFiles(entries) == SelectSeq(entries, LAMBDA n : n \in FileNodes)

-----------------------------------------------------------------------------
(* summarize_project_code *)

\* the fixed names of exclude_dirs
DefaultExcludeDirs ==
    {<<98, 105, 110>>, <<111, 98, 106>>, <<114, 101, 115, 111, 117, 114, 99, 101, 115>>, <<97, 115, 115, 101, 116, 115>>, <<97, 112, 105, 109>>, <<97, 112, 105, 111, 112, 115>>,
     <<109, 97, 110, 97, 103, 101, 109, 101, 110, 116, 45, 97, 112, 105>>, <<97, 116, 116, 97, 99, 104, 109, 101, 110, 116, 115>>, <<101, 109, 112, 108, 111, 121, 101, 101, 45, 109, 97, 115, 116, 101, 114, 100, 97, 116, 97>>,
     <<101, 120, 97, 109, 112, 108, 101, 45, 105, 110, 116, 101, 103, 114, 97, 116, 105, 111, 110>>, <<99, 111, 110, 102, 105, 103, 117, 114, 97, 116, 105, 111, 110, 115>>, <<112, 97, 121, 114, 111, 108, 108, 45, 109, 111, 99, 107>>,
     <<102, 117, 110, 99, 116, 105, 111, 110, 115, 46, 112, 111, 108, 105, 99, 121, 109, 97, 110, 97, 103, 101, 109, 101, 110, 116, 46, 117, 110, 105, 116, 116, 101, 115, 116, 115>>,
     <<102, 117, 110, 99, 116, 105, 111, 110, 115, 46, 116, 101, 110, 97, 110, 116, 109, 97, 110, 97, 103, 101, 109, 101, 110, 116, 46, 117, 110, 105, 116, 116, 101, 115, 116, 115>>, <<109, 105, 103, 114, 97, 116, 105, 111, 110, 115>>, <<114, 101, 112, 111, 114, 116, 105, 110, 103>>,
     <<100, 101, 99, 111, 114, 97, 116, 111, 114>>, <<99, 108, 105, 101, 110, 116>>, <<46, 103, 105, 116>>, <<46, 118, 115, 99, 111, 100, 101>>, <<46, 105, 100, 101, 97>>, <<46, 118, 115>>,
     <<118, 101, 110, 118>>, <<46, 118, 101, 110, 118>>, <<110, 111, 100, 101, 95, 109, 111, 100, 117, 108, 101, 115>>, <<46, 110, 111, 100, 101, 95, 109, 111, 100, 117, 108, 101, 115>>, <<46, 97, 110, 103, 117, 108, 97, 114>>}

\* exclude_dirs after
\*   exclude_dirs.update(d.strip().lower() for d in extra_exclude_dirs if d.strip())
exclude_dirs ==
    DefaultExcludeDirs \cup
        {Lower(Strip(exclude[i])) : i \in {k \in 1..Len(exclude) :
                                              Strip(exclude[k]) # <<>>}}

\* ".droid", ".winui", ".unittests", ".tests"
auto_generated_project_suffixes ==
    {<<46, 100, 114, 111, 105, 100>>, <<46, 119, 105, 110, 117, 105>>, <<46, 117, 110, 105, 116, 116, 101, 115, 116, 115>>, <<46, 116, 101, 115, 116, 115>>}

\* the test with d compared as it is spelled, without d.lower()
KeepDirCaseSensitive(d) ==
    /\ d \notin exclude_dirs
    /\ ~\E suffix \in auto_generated_project_suffixes : EndsWith(d, suffix)

\* the test of `dirs[:] = [d for d in dirs if ...]`, for the name d
KeepDir(d) ==
    /\ Lower(d) \notin exclude_dirs
    /\ ~\E suffix \in auto_generated_project_suffixes : EndsWith(Lower(d), suffix)

\* file.lower().endswith(ext.lower())
MatchesExtension(file, ext) == EndsWith(Lower(file), Lower(ext))

\* f"{header}{cleaned_code}\n" with header = f"=============\n{rel_path}\n"
Fragment(rel_path, cleaned_code) ==
    <<61, 61, 61, 61, 61, 61, 61, 61, 61, 61, 61, 61, 61, 10>> \o rel_path \o LF \o cleaned_code \o LF

\* `continue`, and an extension that does not match: the next extension of
\* the list, or the next file after the last one
LoopContinue ==
    IF ext_idx < Len(extensions)
    THEN files' = files /\ ext_idx' = ext_idx + 1
    ELSE files' = Tail(files) /\ ext_idx' = 1

\* the loop without its `break`: on to the next extension after a fragment
LoopWithoutBreak == LoopContinue

\* `break`: the file is done, on to the next file of the directory
LoopBreak ==
    /\ files' = Tail(files)
    /\ ext_idx' = 1

\* clean_code returned None with the error let through: the run ends
AbortOnError ==
    /\ pc' = "exit"
    /\ exit_status' = 1
    /\ UNCHANGED <<files, ext_idx, output_parts, walk>>

\* clean_code returned None: log and `continue`
SkipOnError ==
    /\ LoopContinue
    /\ UNCHANGED <<output_parts, walk, pc, exit_status>>

\* whether open(file_path, "rb") succeeds or raises: either, at every call
\* (a file that could not be opened may open at the next try)
OpenOutcomes ==
    IF Cardinality(failed) < MaxUnreadable THEN {TRUE, FALSE} ELSE {TRUE}

\* the next directory os.walk yields, and the pruning of its dirs in place
NextDir ==
    /\ pc = "walk"
    /\ files = <<>>
    /\ walk # <<>>
    /\ LET top == Head(walk) IN
       IF top \notin DirNodes \cup {Root} \/ base_path.kind # "dir"
       THEN \* scandir raises, os.walk ignores it and yields nothing
            /\ walk' = Tail(walk)
            /\ UNCHANGED <<files, listing, visited>>
       ELSE \E entries \in Listings(Children(top)) :
                LET dirs == SelectSeq(WalkDirs(entries),
                                      LAMBDA d : KeepDir(Name(d)))
                IN /\ walk' = dirs \o Tail(walk)
                   /\ files' = WalkFiles(entries)
                   /\ listing' = [listing EXCEPT
                                     ![top] = [dirs |-> WalkDirs(entries),
                                               files |-> WalkFiles(entries)]]
                   /\ visited' = visited \cup {top}
    /\ UNCHANGED <<pc, base_path, extensions, normalize_mode, exclude,
                   output_parts, ext_idx, failed, calls, stdout, clipboard,
                   exit_status, data, extension, text, result>>

\* one pass of `for ext in extensions` for the file at the head of files
TryExtension ==
    /\ pc = "walk"
    /\ files # <<>>
    /\ LET file == Head(files)
           ext == extensions[ext_idx]
       IN IF MatchesExtension(Name(file), ext)
          THEN \E openable \in OpenOutcomes :
                   /\ calls' = Append(calls, [file |-> file, ext |-> ext])
                   /\ LET cleaned_code ==
                              clean_code(Content(file), openable, ext,
                                         normalize_mode)
                      IN IF cleaned_code.none
                         THEN /\ failed' = failed \cup {Len(calls) + 1}
                              /\ SkipOnError
                         ELSE /\ output_parts' =
                                     Append(output_parts,
                                            Fragment(RelPath(file),
                                                     cleaned_code.text))
                              /\ LoopBreak
                              /\ UNCHANGED <<failed, walk, pc, exit_status>>
          ELSE /\ LoopContinue
               /\ UNCHANGED <<output_parts, failed, calls, walk, pc,
                              exit_status>>
    /\ UNCHANGED <<base_path, extensions, normalize_mode, exclude, listing,
                   visited, stdout, clipboard, data, extension, text, result>>

-----------------------------------------------------------------------------
(* main *)

\* the check without isdir: os.path.exists(base_path)
RootExists == base_path.kind # "missing"

\* os.path.exists(base_path) and os.path.isdir(base_path)
RootIsValid == base_path.kind # "missing" /\ base_path.kind = "dir"

\* the root checks: sys.exit(1), or the call of summarize_project_code
CheckRoot ==
    /\ pc = "main"
    /\ IF RootIsValid
       THEN /\ pc' = "walk"
            /\ walk' = <<Root>>
            /\ UNCHANGED exit_status
       ELSE /\ pc' = "exit"
            /\ exit_status' = 1
            /\ UNCHANGED walk
    /\ UNCHANGED <<base_path, extensions, normalize_mode, exclude,
                   output_parts, files, ext_idx, listing, failed, calls,
                   visited, stdout, clipboard, data, extension, text, result>>

\* summarize_project_code returns "".join(output_parts); main prints it and
\* copies it to the clipboard when pyperclip was imported and copy() works
Report ==
    /\ pc = "walk"
    /\ files = <<>>
    /\ walk = <<>>
    /\ LET output == Concat(output_parts) IN
       IF Strip(output) = <<>>
       THEN UNCHANGED <<stdout, clipboard>>     \* "No files were processed."
       ELSE /\ stdout' = stdout \o output \o LF
            /\ \E copy \in {"copied", "failed", "unavailable"} :
                   clipboard' = IF copy = "copied" THEN output ELSE clipboard
    /\ pc' = "done"
    /\ exit_status' = 0
    /\ UNCHANGED <<base_path, extensions, normalize_mode, exclude,
                   output_parts, walk, files, ext_idx, listing, failed, calls,
                   visited, data, extension, text, result>>

Init ==
    /\ pc = "main"
    /\ base_path \in [kind : {"missing", "file", "dir"},
                      d1 : D1Names, d2 : D2Names]
    /\ extensions \in ExtensionLists
    /\ normalize_mode \in {"none", "basic"}
    /\ exclude \in ExcludeLists
    /\ output_parts = <<>>
    /\ walk = <<>>
    /\ files = <<>>
    /\ ext_idx = 1
    /\ listing = [d \in DirNodes \cup {Root} |-> [dirs |-> <<>>, files |-> <<>>]]
    /\ failed = {}
    /\ calls = <<>>
    /\ visited = {}
    /\ stdout = <<>>
    /\ clipboard = <<>>
    /\ exit_status = -1
    /\ data = <<>>
    /\ extension = <<>>
    /\ text = <<>>
    /\ result = None

Next == CheckRoot \/ NextDir \/ TryExtension \/ Report

Spec == Init /\ [][Next]_vars

-----------------------------------------------------------------------------
(* Claims about one run of main() (Spec) *)

RECURSIVE Ancestors(_)
\* the directories below the root that an entry lies beneath
Ancestors(n) ==
    IF Parent(n) = Root THEN {} ELSE {Parent(n)} \cup Ancestors(Parent(n))

\* a directory name the exclusion rules name: lower-cased it is in the
\* exclusion set (fixed names and --exclude) or ends with a project suffix
IsExcludedName(name) ==
    \/ Lower(name) \in exclude_dirs
    \/ \E suffix \in auto_generated_project_suffixes :
           EndsWith(Lower(name), suffix)

\* the entry lies beneath an excluded directory, at any depth
BeneathExcluded(n) == \E d \in Ancestors(n) : IsExcludedName(Name(d))

\* the positions of the requested extensions a file's lower-cased name ends with
Matching(f) ==
    {i \in 1..Len(extensions) : EndsWith(Lower(Name(f)), Lower(extensions[i]))}

\* the extension that appears first in the caller's list among those
FirstLabel(f) == extensions[Min(Matching(f))]

\* the header line and path line of a file's fragment
HeaderOf(f) == <<61, 61, 61, 61, 61, 61, 61, 61, 61, 61, 61, 61, 61, 10>> \o RelPath(f) \o <<10>>

\* the fragment of a file: header, body cleaned under `label`, blank line
FragmentOf(f, label) ==
    HeaderOf(f)
        \o clean_code(Content(f), TRUE, label, normalize_mode).text \o <<10>>

\* the positions of the fragments of f in output_parts
FragmentsFor(f) ==
    {i \in 1..Len(output_parts) : StartsWith(output_parts[i], HeaderOf(f))}

\* the positions of the clean_code calls for f
CallsFor(f) == {i \in 1..Len(calls) : calls[i].file = f}

\* the positions of the calls for f whose read succeeded
ReadsOf(f) == CallsFor(f) \ failed

\* the extension f was read under
LabelRead(f) == calls[Min(ReadsOf(f))].ext

RECURSIVE AggregateIn(_, _)
\* the aggregate of the directory d when directories are listed as `order`
\* says: a fragment for every matching file that was read, cleaned under the
\* extension it was read under, then the aggregates of the directories that
\* are not excluded
AggregateIn(order, d) ==
    LET fs == order[d].files
        ds == order[d].dirs
    IN Concat([i \in 1..Len(fs) |->
                  IF Matching(fs[i]) # {} /\ ReadsOf(fs[i]) # {}
                  THEN FragmentOf(fs[i], LabelRead(fs[i])) ELSE <<>>])
       \o Concat([i \in 1..Len(ds) |->
                     IF IsExcludedName(Name(ds[i])) THEN <<>>
                     ELSE AggregateIn(order, ds[i])])

\* C1: whichever files fail to be read, the run goes on to its end and
\* returns, in traversal order, one fragment (header, path, cleaned body,
\* "\n") for every candidate that was read and none for one that was not.
C1_FailuresAreSkipped ==
    /\ base_path.kind = "dir" => (pc # "exit" /\ exit_status \in {-1, 0})
    /\ pc = "walk" => ext_idx \in 1..Len(extensions)
    /\ \A f \in FileNodes :
           /\ Cardinality(ReadsOf(f)) <= 1
           /\ Cardinality(FragmentsFor(f)) = Cardinality(ReadsOf(f))
    /\ pc = "done" => Concat(output_parts) = AggregateIn(listing, Root)

\* C1 witness: a finished run in which no read of some file succeeded and a
\* file that came later was read and reported
C1_Witness ==
    /\ pc = "done"
    /\ \E i \in failed : \E j \in (i + 1)..Len(calls) :
           /\ ReadsOf(calls[i].file) = {}
           /\ j \notin failed
           /\ FragmentsFor(calls[j].file) # {}

\* C2: a directory below the root that the exclusion rules name, and every
\* directory beneath one, is never visited, and no file beneath one is read
\* or reported.
C2_ExcludedSubtreesSkipped ==
    /\ \A d \in DirNodes :
           (IsExcludedName(Name(d)) \/ BeneathExcluded(d)) => d \notin visited
    /\ \A f \in FileNodes :
           BeneathExcluded(f) => CallsFor(f) = {} /\ FragmentsFor(f) = {}

\* C2 witness: a finished run that went into D1 and passed over the excluded
\* D2 in it, which holds a file with a requested extension
C2_Witness ==
    /\ pc = "done"
    /\ "D1" \in visited
    /\ IsExcludedName(Name("D2"))
    /\ Matching("F4") # {}
    /\ output_parts # <<>>

\* C3 as claimed: a file the walk comes to whose name ends with two or more
\* requested extensions is reported exactly once, cleaned under the first of
\* them in the caller's list. (Not so when its read fails: it is not reported.)
C3_ReportedOnce ==
    pc = "done" =>
        \A f \in FileNodes :
            (Cardinality(Matching(f)) >= 2 /\ ~BeneathExcluded(f)) =>
                /\ Cardinality(FragmentsFor(f)) = 1
                /\ \A i \in FragmentsFor(f) :
                       output_parts[i] = FragmentOf(f, FirstLabel(f))

\* C3 amended: such a file is reported at most once; exactly once, cleaned
\* under the first matching extension of the caller's list and under no
\* other, when its read under that extension succeeds; and not at all when
\* every read of it fails.
C3_ReadableReportedOnce ==
    pc = "done" =>
        \A f \in FileNodes :
            (Cardinality(Matching(f)) >= 2 /\ ~BeneathExcluded(f)) =>
                /\ Cardinality(FragmentsFor(f)) <= 1
                /\ CallsFor(f) # {}
                /\ ReadsOf(f) = {} => FragmentsFor(f) = {}
                /\ Min(CallsFor(f)) \notin failed =>
                       /\ Cardinality(FragmentsFor(f)) = 1
                       /\ \A i \in FragmentsFor(f) :
                              output_parts[i] = FragmentOf(f, FirstLabel(f))
                       /\ \A i \in CallsFor(f) : calls[i].ext = FirstLabel(f)

\* C3 witness: a reported file matching ".cs" and, earlier in the list, an
\* extension that is not the recognized kind, so that the label decides the body
C3_Witness ==
    /\ pc = "done"
    /\ \E f \in FileNodes :
           /\ Cardinality(Matching(f)) >= 2
           /\ FragmentsFor(f) # {}
           /\ Min(CallsFor(f)) \notin failed
           /\ Lower(FirstLabel(f)) # <<46, 99, 115>>
           /\ \E i \in Matching(f) : Lower(extensions[i]) = <<46, 99, 115>>
           /\ FragmentOf(f, FirstLabel(f)) # FragmentOf(f, <<46, 99, 115>>)

\* C8: when the root is missing or is no directory, main exits with a
\* non-zero status at once: nothing is traversed, read, printed or copied.
C8_InvalidRootFailsFast ==
    base_path.kind # "dir" =>
        /\ pc \in {"main", "exit"}
        /\ pc = "exit" => exit_status > 0
        /\ visited = {} /\ walk = <<>> /\ calls = <<>>
        /\ output_parts = <<>> /\ stdout = <<>> /\ clipboard = <<>>

\* C8 witness: main has exited on a root that is a regular file
C8_Witness == pc = "exit" /\ base_path.kind = "file"

\* the name a sorts before the name b, as Python compares strings
NameLess(a, b) ==
    \E k \in 1..Len(b) :
        /\ \A i \in 1..(k - 1) : i <= Len(a) /\ a[i] = b[i]
        /\ k > Len(a) \/ (k - 1 < Len(a) /\ a[k] < b[k])

\* the entries S in the order of their names
SortedByName(S) ==
    [k \in 1..Cardinality(S) |->
        CHOOSE n \in S :
            Cardinality({m \in S : NameLess(Name(m), Name(n))}) = k - 1]

\* every directory listed in the order of its entries' names
SortedListing ==
    [d \in DirNodes \cup {Root} |->
        [dirs |-> SortedByName(Children(d) \cap DirNodes),
         files |-> SortedByName(Children(d) \cap FileNodes)]]

\* C9: fragments come in the sorted order of the directory entries, so the
\* aggregate does not depend on the order the directories were listed in.
\* (summarize_project_code takes os.walk's lists as they come.)
C9_SortedOrder ==
    pc = "done" => Concat(output_parts) = AggregateIn(SortedListing, Root)

\* C10: in one run every file is handed to clean_code at most once, also
\* when its read fails and its name matches several requested extensions.
\* (After a failed read the code goes on to the next extension of the list.)
C10_CleanedAtMostOnce ==
    \A f \in FileNodes : Cardinality(CallsFor(f)) <= 1

-----------------------------------------------------------------------------
(* Claims about the normalizer (SpecNorm) *)

\* C4: normalization is idempotent: in mode basic and in mode ascii,
\* normalizing the normalized text gives the normalized text again, also when
\* a removed character stands between a base character and a combining mark.
\* The code composes first and removes afterwards, so "e", U+200B, U+0301
\* becomes "e", U+0301 and only the second pass composes it to U+00E9.
C4_Idempotent ==
    (pc = "renormalized" /\ normalize_mode \in {"basic", "ascii"})
        => result.twice = result.once

-----------------------------------------------------------------------------
(* Claims about the decoder (SpecDecode) *)

\* bytes that occur in no UTF-8 text: C0, C1, F5..FF
NeverUtf8 == {\hC0, \hC1} \cup (\hF5..\hFF)

\* the bytes Windows-1252 assigns no character
Cp1252Undefined == {\h81, \h8D, \h8F, \h90, \h9D}

\* data starts with a UTF-16 or UTF-32 byte-order-mark
HasWideBom(b) ==
    \/ StartsWith(b, <<\hFF, \hFE>>)
    \/ StartsWith(b, <<\hFE, \hFF>>)
    \/ StartsWith(b, <<0, 0, \hFE, \hFF>>)

\* read_text_robust has returned for a file that opened
ReadReturned == pc = "returned" /\ ~result.raised

\* C7 as claimed: bytes holding a byte invalid in UTF-8, with no UTF-16/32
\* byte-order-mark in front, come back labelled 'latin-1', one code point a
\* byte. (Stated for the bytes no UTF-8 text can hold; the code answers
\* 'cp1252' for most of them, so this is violated.)
C7_Latin1Label ==
    (/\ ReadReturned
     /\ \E i \in 1..Len(data) : data[i] \in NeverUtf8
     /\ ~HasWideBom(data))
        => (result.enc = "latin-1" /\ Len(result.text) = Len(data))

\* C7 amended: bytes that are not valid UTF-8, with no UTF-16/32
\* byte-order-mark in front, come back with one code point a byte, labelled
\* 'cp1252' when Windows-1252 defines every byte and 'latin-1' only when one
\* of 81, 8D, 8F, 90, 9D is among them.
C7_OneCodePointPerByte ==
    (/\ ReadReturned
     /\ ~Utf8Decode(data).ok
     /\ ~HasWideBom(data))
        => /\ Len(result.text) = Len(data)
           /\ result.enc =
                  IF \E i \in 1..Len(data) : data[i] \in Cp1252Undefined
                  THEN "latin-1" ELSE "cp1252"

\* C7 witness: such a file was decoded by the Latin-1 tier, and held a byte
\* that Windows-1252 maps away from its own value
C7_Witness ==
    /\ ReadReturned
    /\ ~Utf8Decode(data).ok
    /\ ~HasWideBom(data)
    /\ result.enc = "latin-1"
    /\ Len(data) = 2

-----------------------------------------------------------------------------
(* Claims about the cleaner (SpecClean) *)

\* the `count`-th smallest member of the set S of numbers
Nth(S, count) == CHOOSE i \in S : Cardinality({j \in S : j < i}) = count - 1

\* the members of seq at the positions S, in their order
AtPositions(seq, S) == [k \in 1..Cardinality(S) |-> seq[Nth(S, k)]]

\* an import line: any byte-order-marks, then any whitespace, then "using "
IsImport(l) ==
    \E i \in 0..Len(l) :
        /\ \A k \in 1..i : l[k] = \hFEFF
        /\ \E j \in i..Len(l) :
               /\ \A k \in (i + 1)..j : IsSpace(l[k])
               /\ Len(l) >= j + 6
               /\ SubSeq(l, j + 1, j + 6) = <<117, 115, 105, 110, 103, 32>>

\* a declaration line: any whitespace, then "namespace"
IsDeclaration(l) ==
    \E j \in 0..Len(l) :
        /\ \A k \in 1..j : IsSpace(l[k])
        /\ Len(l) >= j + 9
        /\ SubSeq(l, j + 1, j + 9) = <<110, 97, 109, 101, 115, 112, 97, 99, 101>>

\* the lines of the text the cleaner is given
InputLines == Split(DecodedText(data, normalize_mode), 10)

\* positions of the lines that are no import lines
NonImport(lines) == {i \in 1..Len(lines) : ~IsImport(lines[i])}

\* positions of the declaration lines among them
Declarations(lines) == {i \in NonImport(lines) : IsDeclaration(lines[i])}

\* positions of the lines the claim says are retained: the lines that are no
\* import lines, from the first declaration line onward when there is one
Retained(lines) ==
    LET keep == NonImport(lines)
        decl == {i \in keep : IsDeclaration(lines[i])}
    IN {i \in keep : \A d \in decl : \E e \in decl : e <= i}

\* the retained lines, joined by "\n"
RetainedBody(lines) ==
    LET kept == Retained(lines) IN Join(<<10>>, AtPositions(lines, kept))

\* clean_code has returned a body for a file of the recognized kind
CleanedCs ==
    pc = "cleaned" /\ ~result.none /\ Lower(extension) = <<46, 99, 115>>

\* C5: for a '.cs' file (label compared case-insensitively) the body is made
\* of exactly the lines that are no import lines (leading byte-order-marks,
\* then leading whitespace, stripped before looking for "using "), from the
\* first of them that starts with "namespace" (leading whitespace stripped)
\* onward, or all of them when none does; in their original order, joined by
\* "\n", with at most the one "\n" appended at the end.
C5_CsBody ==
    CleanedCs =>
        LET body == RetainedBody(InputLines)
        IN result.text = body \/ result.text = body \o <<10>>

\* C5 witness: a '.cs' file that held an import line, and a declaration line
\* with a line that is no import before it
C5_Witness ==
    /\ CleanedCs
    /\ LET lines == InputLines
           keep == NonImport(lines)
           decl == Declarations(lines)
       IN /\ keep # 1..Len(lines)
          /\ \E d \in decl : \E i \in keep : i < d

\* the number of "\n" a text ends with
TrailingNewlines(t) ==
    Cardinality({n \in 1..Len(t) : \A k \in (Len(t) - n + 1)..Len(t) : t[k] = 10})

\* the text the final step of clean_code is applied to: the joined retained
\* lines for '.cs', the whole text for any other kind
BodyBeforeNewline ==
    IF Lower(extension) = <<46, 99, 115>> THEN RetainedBody(InputLines)
    ELSE DecodedText(data, normalize_mode)

\* C6 as claimed: every body clean_code returns ends with exactly one "\n".
\* (A file whose text ends with a blank line keeps both.)
C6_ExactlyOneNewline ==
    (pc = "cleaned" /\ ~result.none)
        => /\ EndsWith(result.text, <<10>>)
           /\ ~EndsWith(result.text, <<10, 10>>)

\* C6 amended: every body clean_code returns ends with at least one "\n":
\* one is appended when the body would end with none, and the trailing "\n"
\* the body already ends with are all kept.
C6_AtLeastOneNewline ==
    (pc = "cleaned" /\ ~result.none)
        => /\ EndsWith(result.text, <<10>>)
           /\ LET before == TrailingNewlines(BodyBeforeNewline)
              IN TrailingNewlines(result.text) =
                     IF before = 0 THEN 1 ELSE before

\* C6 witness: a body was returned that ends with more than one "\n"
C6_Witness ==
    /\ pc = "cleaned"
    /\ ~result.none
    /\ EndsWith(result.text, <<10, 10>>)

=============================================================================
